---- MODULE Spec2Model ----
(***************************************************************************)
(* Model of class agn of src/agn.py: the ion constants table, the line     *)
(* ratio solver ratio() and the coupled iteration fivel().                 *)
(*                                                                         *)
(* Numbers.  Python floats are modelled by scaled integers:                *)
(*   temperatures in Kelvin, densities in particles cm^-3 (units of 1),    *)
(*   collision strengths in 1e-3, Einstein coefficients in 1e-6,           *)
(*   the weight g in 1e-2, wavelengths in Angstrom, V in 1e-9.             *)
(* A line ratio J is the exact fraction p/q, record [p, q].                *)
(* A float value is a record [k, v, np]: k = "num" (v its value),          *)
(* k = "inf" (v = 1 or -1, the sign) or k = "nan"; np tells a numpy        *)
(* float64 (TRUE) from a plain Python number (FALSE), which decides        *)
(* whether a division by zero raises or yields inf/nan.                    *)
(***************************************************************************)
EXTENDS Integers, Sequences, FiniteSets, TLC

Py(x)  == [k |-> "num", v |-> x, np |-> FALSE]
Np(x)  == [k |-> "num", v |-> x, np |-> TRUE]
Inf(s) == [k |-> "inf", v |-> s, np |-> TRUE]
NaN    == [k |-> "nan", v |-> 0, np |-> TRUE]

Abs(x) == IF x < 0 THEN -x ELSE x
Sgn(x) == IF x > 0 THEN 1 ELSE IF x < 0 THEN -1 ELSE 0

\* float division a/b of finite numbers, b # 0, rounded toward zero
Quot(a, b) == Sgn(a) * Sgn(b) * (Abs(a) \div Abs(b))

(***************************************************************************)
(* The ion constants table (class attribute agn.values).                   *)
(***************************************************************************)
ValuesTable ==
  [ion \in {"OIII", "NII", "SII", "OII"} |->
     CASE ion = "OIII" ->
            [Ods |-> 580, Lds |-> 4363, Ads |-> 1600000, g |-> 300,
             Ops |-> 290, Lps |-> 2321, Aps |-> 230000,
             Odp1 |-> 2290, Ldp1 |-> 4959, Adp1 |-> 6800,
             Odp2 |-> 2290, Ldp2 |-> 5007, Adp2 |-> 20000]
       [] ion = "NII" ->
            [Ods |-> 830, Lds |-> 5755, Ads |-> 1000000, g |-> 386,
             Ops |-> 290, Lps |-> 3063, Aps |-> 33000,
             Odp1 |-> 2640, Ldp1 |-> 6548, Adp1 |-> 980,
             Odp2 |-> 2640, Ldp2 |-> 6583, Adp2 |-> 3000]
       [] ion = "SII" ->
            [Oab |-> 2760, Oag |-> 4140, Obg |-> 7470,
             Aab |-> 880, Aag |-> 260, Lab |-> 6731, Lag |-> 6716]
       [] ion = "OII" ->
            [Oab |-> 536, Oag |-> 804, Obg |-> 1170,
             Aab |-> 160, Aag |-> 36, Lab |-> 3726, Lag |-> 3729]]

\* Statistical weights and V of ratio()
gd == 5
gs == 1
gb == 4
gg == 6
V  == 8600

(***************************************************************************)
(* T**0.5, in tenths: the largest r with r*r <= 100*T.                     *)
(***************************************************************************)
RECURSIVE SqrtIter(_, _, _)
SqrtIter(lo, hi, x) ==
  IF lo >= hi THEN lo
  ELSE LET mid == (lo + hi + 1) \div 2
       IN  IF mid * mid <= x THEN SqrtIter(mid, hi, x)
                             ELSE SqrtIter(lo, mid - 1, x)

Sqrt10(t) == SqrtIter(0, 4000, 100 * t)

(***************************************************************************)
(* np.exp of a non-positive argument: ExpNeg(xm) is exp(-xm/1000) in       *)
(* units of 1/ExpScale.  exp(-x) = exp(-1)^k * exp(-0.1)^a * exp(-b/1000)  *)
(* for x = k + a/10 + b/1000, the last factor by its series to order 2.    *)
(***************************************************************************)
ExpScale == 1000
ExpOne   == 368
ExpTenth == 905
HCK      == 143878

RECURSIVE ExpPow(_, _, _)
ExpPow(acc, base, n) ==
  IF n = 0 \/ acc = 0 THEN acc
  ELSE ExpPow((acc * base) \div ExpScale, base, n - 1)

ExpNeg(xm) ==
  LET kk == xm \div 1000
      a  == (xm % 1000) \div 100
      b  == xm % 100
      lo == ExpScale - (b * ExpScale) \div 1000
                     + (b * b * ExpScale) \div 2000000
  IN  ExpPow(ExpPow(lo, ExpTenth, a), ExpOne, kk)

\* E(val, t) = exp(-h*c*10**10/(k*T*val)) for val > 0, in units of 1/ExpScale
E(val, t) == ExpNeg((HCK * 1000) \div ((t * val) \div 1000))

(***************************************************************************)
(* Outcome of a call: a returned value or a raised exception.  sgn is the  *)
(* array np.sign(AA - BB) the call computed (empty when it computed none)  *)
(* and work counts the formula evaluations it made (grid samples or        *)
(* density expressions).                                                   *)
(***************************************************************************)
None == [k |-> "none", v |-> 0, np |-> FALSE]
Ret(x, s, w)   == [st |-> "ret", val |-> x, exc |-> "", sgn |-> s, work |-> w]
Raise(e, s, w) == [st |-> "raise", val |-> None, exc |-> e, sgn |-> s, work |-> w]

\* self.values.get(ion, self.values['OIII']): an unknown ion answered
\* with the first entry of the table
LookupDefault(vals, ion) ==
  IF ion \in DOMAIN vals THEN [found |-> TRUE, dic |-> vals[ion]]
  ELSE [found |-> TRUE, dic |-> vals["OIII"]]

\* dic = self.values[ion]: KeyError when ion is not a key of the table
Lookup(vals, ion) ==
  IF ion \in DOMAIN vals THEN [found |-> TRUE, dic |-> vals[ion]]
                         ELSE [found |-> FALSE, dic |-> <<>>]

FamilyA(ion) == ion = "OIII" \/ ion = "NII"
FamilyB(ion) == ion = "SII" \/ ion = "OII"

(***************************************************************************)
(* Family A: the temperature grid and the coefficients f1..f4.             *)
(* f1 is in units of 1e-4; f2, f3, f4 are in units of 1.                   *)
(***************************************************************************)
TStart   == 100
TStop    == 100000
GridStep == 10000

\* Te = np.arange(100, 1e5, step): 1-based sequence of the samples
GridLen == (TStop - TStart + GridStep - 1) \div GridStep
Te == [i \in 1..GridLen |-> TStart + (i - 1) * GridStep]

F1(d) == (gd * d.Adp2 * d.Lds) \div ((((gs * d.Ads) \div 1000) * d.Ldp2) \div 10)
F2(d) == (gs * (d.Ads + d.Aps) * 1000) \div ((d.g * (V \div 100) * d.Ops) \div 1000)
F3(d) == (gs * d.Ads * 1000) \div ((d.g * (V \div 100) * d.Odp2) \div 1000)
F4(d) == (gd * d.Adp2 * 1000) \div ((d.g * (V \div 100) * d.Odp2) \div 1000)

(***************************************************************************)
(* funct(T, J): the pair (y1, y2) at one temperature, both multiplied by   *)
(* the positive number E(Lds, T) so that fac = f1*E(-Lds,T) becomes f1     *)
(* and the values stay in range; the sign of y1 - y2 is unchanged.         *)
(* f holds f1..f4 and Lds, computed once per call as in ratio().           *)
(* With an infinite or NaN density the float rules give inf or nan.        *)
(***************************************************************************)
Coefs(d) == [f1 |-> F1(d), f2 |-> F2(d), f3 |-> F3(d), f4 |-> F4(d),
             Lds |-> d.Lds]

Funct(t, J, n0, f) ==
  IF n0.k = "nan" THEN [y1 |-> NaN, y2 |-> NaN]
  ELSE IF n0.k = "inf" THEN
    [y1 |-> Inf(n0.v),
     y2 |-> IF J.p = 0 THEN NaN ELSE Inf(Sgn(J.p) * n0.v)]
  ELSE
    CHOOSE y \in
      {[y1 |-> Np(Quot(f.f1 * (n + f.f2 + Quot(f.f3 * Em, ExpScale)), 10000)),
        y2 |-> Np(Quot(Quot(J.p * (n + f.f4), J.q) * Em, ExpScale))] :
         Em \in {E(f.Lds, t)}, n \in {Quot(10 * n0.v, Sqrt10(t))}} : TRUE

\* np.sign(AA - BB) at one sample; SgnNaN stands for a NaN sign
SgnNaN == 2
SignDiff(y) ==
  IF y.y1.k = "nan" \/ y.y2.k = "nan" THEN SgnNaN
  ELSE IF y.y1.k = "inf" THEN
         IF y.y2.k = "inf" /\ y.y2.v = y.y1.v THEN SgnNaN ELSE y.y1.v
  ELSE IF y.y2.k = "inf" THEN -y.y2.v
  ELSE Sgn(y.y1.v - y.y2.v)

\* np.sign(AA - BB) over the samples j..GridLen of the grid, as a sequence
RECURSIVE SignsFrom(_, _, _, _)
SignsFrom(j, J, n0, f) ==
  IF j > GridLen THEN <<>>
  ELSE <<SignDiff(Funct(Te[j], J, n0, f))>> \o SignsFrom(j + 1, J, n0, f)

\* (the coefficients are bound once, as ratio() computes them once)
Signs(J, n0, d) ==
  CHOOSE s \in {SignsFrom(1, J, n0, f) : f \in {Coefs(d)}} : TRUE

\* np.diff(...)[j] is non-zero (NaN counts as non-zero for np.argwhere)
DiffNonZero(s, j) == s[j] = SgnNaN \/ s[j + 1] = SgnNaN \/ s[j + 1] # s[j]

\* idx = np.argwhere(np.diff(np.sign(AA - BB))).flatten(): the 1-based
\* positions j with a non-zero difference between samples j and j+1, in
\* increasing order
RECURSIVE IdxFrom(_, _)
IdxFrom(s, j) ==
  IF j >= Len(s) THEN <<>>
  ELSE IF DiffNonZero(s, j) THEN <<j>> \o IdxFrom(s, j + 1)
  ELSE IdxFrom(s, j + 1)

Idx(s) == IdxFrom(s, 1)


\* sol[-1] in place of sol[0]: the sample before the last sign change
FirstSolLast(s, idx) ==
  IF idx = <<>> THEN Raise("IndexError", s, Len(s))
  ELSE Ret(Np(Te[idx[Len(idx)]]), s, Len(s))

\* an empty idx answered with the end of the grid instead of an error
FirstSolClamp(s, idx) ==
  IF idx = <<>> THEN Ret(Np(Te[Len(s)]), s, Len(s))
  ELSE Ret(Np(Te[idx[1]]), s, Len(s))

\* Te[idx + 1] in place of Te[idx]: the sample after the sign change
FirstSolNext(s, idx) ==
  IF idx = <<>> THEN Raise("IndexError", s, Len(s))
  ELSE Ret(Np(Te[idx[1] + 1]), s, Len(s))

\* sol = Te[idx]; return sol[0] (IndexError when idx is empty)
FirstSol(s, idx) ==
  IF idx = <<>> THEN Raise("IndexError", s, Len(s))
  ELSE Ret(Np(Te[idx[1]]), s, Len(s))
\* lines 184-188 on a given sign array
Scan(s) == FirstSol(s, Idx(s))

RatioA(J, n0, d) ==
  CHOOSE r \in {Scan(s) : s \in {Signs(J, n0, d)}} : TRUE

(***************************************************************************)
(* Family B: the closed form.  J = p/q; up and down are both multiplied by *)
(* q, which leaves up/down, the signs and the zero test unchanged.         *)
(* C is in 1e-9, ff1, ff2, ff3 in 1e-3, up*q in 1e-10, down*q in 1e-15.    *)
(***************************************************************************)
\* C growing with the square root of T instead of falling with it
CofTRising(t) == Sqrt10(t.v) \div 10

CofT(t) == (V * 10) \div Sqrt10(t.v)
FF1(d) == 1000 + (d.Obg * 1000) \div d.Oab + (d.Obg * 1000) \div d.Oag
FF2(d) == (gb * 1000000) \div d.Oab
FF3(d) == (gg * 1000000) \div d.Oag
Up(J, d) == ((((FF3(d) * 1000) \div FF1(d)) * d.Aag * d.Aab) \div 100000)
              * (gg * J.q - J.p * gb)
Down(J, t, d) == CofT(t) * (J.p * gb * d.Aab - J.q * gb * d.Aag)

\* sol = up/down: plain Python floats raise ZeroDivisionError on a zero
\* divisor, a numpy float64 operand gives inf or nan instead
Divide(up, down, isNp) ==
  IF down = 0 THEN
    IF isNp THEN (IF up = 0 THEN Ret(NaN, <<>>, 1) ELSE Ret(Inf(Sgn(up)), <<>>, 1))
    ELSE Raise("ZeroDivisionError", <<>>, 1)
  ELSE Ret([k |-> "num", v |-> Quot(up * 1000, Quot(down, 100)), np |-> isNp],
           <<>>, 1)

\* A temperature that is itself numpy's nan, inf, zero or negative (never
\* the case for the plain numbers ratio() is called with): T**0.5 is nan
\* for a negative T, so sol is nan; C is 0 for an infinite T, so down is 0;
\* C is inf for T = 0, so down is inf (nan when its other factor is 0)
RatioB(J, t, d) ==
  IF t.k = "nan" \/ (t.k = "num" /\ t.v < 0) THEN Ret(NaN, <<>>, 1)
  ELSE IF t.k = "inf" THEN Divide(Up(J, d), 0, TRUE)
  ELSE IF t.v = 0 THEN
    (IF J.p * gb * d.Aab - J.q * gb * d.Aag = 0 THEN Ret(NaN, <<>>, 1)
     ELSE Ret(Np(0), <<>>, 1))
  ELSE Divide(Up(J, d), Down(J, t, d), t.np)

(***************************************************************************)
(* ratio(self, J, Ne=10, T=1000, ion='OIII')                               *)
(***************************************************************************)
Ratio(vals, J, Ne, T, ion) ==
  LET l == Lookup(vals, ion)
  IN  IF ~l.found THEN Raise("KeyError", <<>>, 0)
      ELSE IF FamilyA(ion) THEN RatioA(J, Ne, l.dic)
      ELSE IF FamilyB(ion) THEN RatioB(J, T, l.dic)
      ELSE Ret(None, <<>>, 0)

(***************************************************************************)
(* The state: the class attribute values, the fields of one agn object,    *)
(* the locals and the position of fivel(), what it printed, the ratio()    *)
(* calls it made and its outcome; the caller's own calls of ratio()        *)
(* (rprev, rres: the last two since fivel() last ran) and the most recent  *)
(* call of ratio() by anyone, with the sign array it computed (last).      *)
(* memo keeps the outcome of the first fivel() call on the object, again   *)
(* tells that fivel() had completed before when it was last entered, and   *)
(* ctor keeps the arguments the object was constructed with.               *)
(***************************************************************************)
VARIABLES values, J1, J2, ion1, ion2, show,
          pc, X, T, Ne, RES, i,
          stdout, calls, result, memo,
          rprev, rres, last, op, again, ctor

locals == <<X, T, Ne, RES, i>>
vars   == <<values, J1, J2, ion1, ion2, show, pc, X, T, Ne, RES, i,
            stdout, calls, result, memo, rprev, rres, last, op, again,
            ctor>>

Frac(p, q) == [p |-> p, q |-> q]

\* Inputs: the ratios and ion names an object is built with
J1Vals == {Frac(123, 1), Frac(12, 1), Frac(1, 100), Frac(250, 1)}
J2Vals == {Frac(34, 25), Frac(13, 44), Frac(9, 40), Frac(8, 5)}
Ions   == {"OIII", "NII", "SII", "OII", "XEON"}

\* Defaults of ratio(self, J, Ne=10, T=1000, ion='OIII')
DefaultNe == Py(10)
DefaultT  == Py(1000)

\* range(0, 4) of both loops of fivel()
Rounds == 4

\* A call of ratio() with its arguments and outcome; Brief drops the array
Call(J, n, t, ion, r) ==
  [J |-> J, Ne |-> n, T |-> t, ion |-> ion, res |-> r, made |-> TRUE]
NoCall == [J |-> Frac(0, 1), Ne |-> None, T |-> None, ion |-> "",
           res |-> Ret(None, <<>>, 0), made |-> FALSE]
Brief(c) == [c EXCEPT !.res.sgn = <<>>]

NoResult == [st |-> "none", T |-> None, Ne |-> None, exc |-> ""]
Returned(t, n) == [st |-> "ret", T |-> t, Ne |-> n, exc |-> ""]
Raised(e) == [st |-> "raise", T |-> None, Ne |-> None, exc |-> e]

\* agn.__init__ with the class attributes in place, no call made yet
Init ==
  /\ values = ValuesTable
  /\ J1 \in J1Vals /\ J2 \in J2Vals
  /\ ion1 \in Ions /\ ion2 \in Ions
  /\ show \in BOOLEAN
  /\ pc = "idle"
  /\ X = None /\ T = None /\ Ne = None /\ RES = None /\ i = 0
  /\ stdout = <<>> /\ calls = <<>>
  /\ result = NoResult /\ memo = NoResult
  /\ rprev = NoCall /\ rres = NoCall /\ last = NoCall
  /\ op = "init"
  /\ again = FALSE
  /\ ctor = <<J1, J2, ion1, ion2, show>>

\* ratio() rescaling an entry of the shared table in place
FrameRescales ==
  /\ values' = [values EXCEPT !["SII"].Aag = 0]
  /\ UNCHANGED <<J1, J2, ion1, ion2, show, ctor>>

\* Neither ratio() nor fivel() assigns an attribute of self or an entry of
\* the class-level table
Frame == UNCHANGED <<values, J1, J2, ion1, ion2, show, ctor>>

\* a loop that stops as soon as a round leaves the temperature unchanged
LoopUntilConverged(k) == k + 1 < Rounds /\ T # RES

\* for i in range(0, 4): another round follows round k + 1
LoopContinues(k) == k + 1 < Rounds

\* fivel() ends: its frame is dropped, the caller gets the outcome o
Leave(o) ==
  /\ pc' = "idle"
  /\ X' = None /\ T' = None /\ Ne' = None /\ RES' = None /\ i' = 0
  /\ result' = o
  /\ memo' = IF memo.st = "none" THEN o ELSE memo

Stay == result' = result /\ memo' = memo

\* fivel() calls ratio(): the call c is logged
Logged(c) == calls' = Append(calls, Brief(c)) /\ last' = c

Line(tag, k, n, t) == [tag |-> tag, i |-> k, Ne |-> n, T |-> t]

\* X = 1e4 of the first branch of fivel()
SeedDensity == Py(10000)
\* X = 1e4 of the second branch of fivel()
SeedTemperature == Py(10000)

(***************************************************************************)
(* fivel() is entered: the branch on self.ion1 and the seed solve.         *)
(***************************************************************************)
FivelCall ==
  /\ pc = "idle"
  /\ op' = "fivel"
  /\ rprev' = NoCall /\ rres' = NoCall
  /\ again' = (memo.st # "none")
  /\ Frame
  /\ IF FamilyA(ion1) THEN
       \E x0 \in {SeedDensity} :
       \E r \in {Ratio(values, J1, x0, DefaultT, ion1)} :
         /\ calls' = <<Brief(Call(J1, x0, DefaultT, ion1, r))>>
         /\ last' = Call(J1, x0, DefaultT, ion1, r)
         /\ IF r.st = "raise"
            THEN /\ Leave(Raised(r.exc))
                 /\ stdout' = <<>>
            ELSE /\ X' = x0
                 /\ T' = r.val
                 /\ stdout' = <<Line("begin", 0, None, None)>>
                 /\ i' = 0
                 /\ pc' = "a_density"
                 /\ result' = NoResult
                 /\ UNCHANGED <<Ne, RES, memo>>
     ELSE IF FamilyB(ion1) THEN
       \E x0 \in {SeedTemperature} :
       \E r \in {Ratio(values, J2, DefaultNe, x0, ion2)} :
         /\ calls' = <<Brief(Call(J2, DefaultNe, x0, ion2, r))>>
         /\ last' = Call(J2, DefaultNe, x0, ion2, r)
         /\ IF r.st = "raise"
            THEN /\ Leave(Raised(r.exc))
                 /\ stdout' = <<>>
            ELSE /\ X' = x0
                 /\ Ne' = r.val
                 /\ stdout' = <<Line("begin", 0, None, None)>>
                 /\ i' = 0
                 /\ pc' = "b_temp"
                 /\ result' = NoResult
                 /\ UNCHANGED <<T, RES, memo>>
     ELSE /\ calls' = <<>>
          /\ stdout' = <<>>
          /\ pc' = "return"
          /\ result' = NoResult
          /\ UNCHANGED <<locals, memo, last>>

\* first branch, loop body: RES = T; Ne = self.ratio(J=self.J2,T=RES,ion=self.ion2)
ADensity ==
  /\ pc = "a_density"
  /\ op' = "fivel"
  /\ Frame
  /\ UNCHANGED <<rprev, rres, stdout, again>>
  /\ \E r \in {Ratio(values, J2, DefaultNe, T, ion2)} :
       /\ Logged(Call(J2, DefaultNe, T, ion2, r))
       /\ IF r.st = "raise"
          THEN Leave(Raised(r.exc))
          ELSE /\ RES' = T
               /\ Ne' = r.val
               /\ pc' = "a_temp"
               /\ Stay
               /\ UNCHANGED <<X, T, i>>

\* first branch, loop body: T = self.ratio(J=self.J1,Ne=Ne,ion=self.ion1)
ATemp ==
  /\ pc = "a_temp"
  /\ op' = "fivel"
  /\ Frame
  /\ UNCHANGED <<rprev, rres, stdout, again>>
  /\ \E r \in {Ratio(values, J1, Ne, DefaultT, ion1)} :
       /\ Logged(Call(J1, Ne, DefaultT, ion1, r))
       /\ IF r.st = "raise"
          THEN Leave(Raised(r.exc))
          ELSE /\ T' = r.val
               /\ pc' = "a_print"
               /\ Stay
               /\ UNCHANGED <<X, Ne, RES, i>>

\* first branch, loop body: the print under self.show, then the next i
APrint ==
  /\ pc = "a_print"
  /\ op' = "fivel"
  /\ Frame
  /\ UNCHANGED <<rprev, rres, last, calls, X, T, Ne, RES, again>>
  /\ Stay
  /\ stdout' = IF show THEN Append(stdout, Line("iter", i + 1, Ne, RES))
                       ELSE stdout
  /\ IF LoopContinues(i)
     THEN i' = i + 1 /\ pc' = "a_density"
     ELSE i' = i /\ pc' = "return"

\* the call of line 284 written self.ratio(J=self.J1,T=T,ion=self.ion1)
SelfRatio(vals, J, t, ion) == Ratio(vals, J, DefaultNe, t, ion)

\* the name ratio called at line 284 without self: the module defines no
\* such global, so the call raises NameError before its arguments are read
BareRatio(vals, J, t, ion) == Raise("NameError", <<>>, 0)

\* second branch, loop body: RES = Ne; T = self.ratio(J=self.J2,Ne=RES,ion=self.ion2)
BTemp ==
  /\ pc = "b_temp"
  /\ op' = "fivel"
  /\ Frame
  /\ UNCHANGED <<rprev, rres, stdout, again>>
  /\ \E r \in {Ratio(values, J2, Ne, DefaultT, ion2)} :
       /\ Logged(Call(J2, Ne, DefaultT, ion2, r))
       /\ IF r.st = "raise"
          THEN Leave(Raised(r.exc))
          ELSE /\ RES' = Ne
               /\ T' = r.val
               /\ pc' = "b_density"
               /\ Stay
               /\ UNCHANGED <<X, Ne, i>>

\* second branch, loop body: Ne = ratio(J=J1,T=T,ion=ion1), the print, next i
BDensity ==
  /\ pc = "b_density"
  /\ op' = "fivel"
  /\ Frame
  /\ UNCHANGED <<rprev, rres, again>>
  /\ \E r \in {BareRatio(values, J1, T, ion1)} :
       /\ Logged(Call(J1, DefaultNe, T, ion1, r))
       /\ IF r.st = "raise"
          THEN Leave(Raised(r.exc)) /\ stdout' = stdout
          ELSE /\ Ne' = r.val
               /\ stdout' = IF show
                            THEN Append(stdout, Line("iter", i + 1, RES, T))
                            ELSE stdout
               /\ IF LoopContinues(i)
                  THEN i' = i + 1 /\ pc' = "b_temp"
                  ELSE i' = i /\ pc' = "return"
               /\ Stay
               /\ UNCHANGED <<X, T, RES>>

\* return T, Ne (UnboundLocalError when neither branch assigned them)
Return ==
  /\ pc = "return"
  /\ op' = "fivel"
  /\ Frame
  /\ UNCHANGED <<rprev, rres, last, calls, again>>
  /\ IF T = None \/ Ne = None
     THEN Leave(Raised("UnboundLocalError")) /\ stdout' = stdout
     ELSE /\ Leave(Returned(T, Ne))
          /\ stdout' = Append(stdout, Line("done", 0, None, None))

\* The caller calls ratio() itself, between calls of fivel(): with the
\* object's first pair and the default T, or with its second pair and a
\* temperature of its choice
DirectTs == {DefaultT, Np(10100)}
DirectArgs ==
  {<<J1, ion1, DefaultT>>} \cup {<<J2, ion2, t>> : t \in DirectTs}

RatioCall ==
  /\ pc = "idle"
  /\ op' = "ratio"
  /\ \E a \in DirectArgs :
     \E r \in {Ratio(values, a[1], DefaultNe, a[3], a[2])} :
       /\ last' = Call(a[1], DefaultNe, a[3], a[2], r)
       /\ rres' = Brief(Call(a[1], DefaultNe, a[3], a[2], r))
       /\ rprev' = rres
  /\ Frame
  /\ UNCHANGED <<pc, locals, stdout, calls, result, memo, again>>

Next ==
  \/ FivelCall
  \/ ADensity
  \/ ATemp
  \/ APrint
  \/ BTemp
  \/ BDensity
  \/ Return
  \/ RatioCall

Spec == Init /\ [][Next]_vars

(***************************************************************************)
(* The scan of lines 184-188 on its own: ratio() is called once on a       *)
(* family-A ion whose y1 - y2 has an arbitrary sign profile over the grid  *)
(* (np.sign gives -1, 0 or 1, or nan where funct gave nan).                *)
(***************************************************************************)
Profiles == [1..GridLen -> {-1, 0, 1}] \cup [1..GridLen -> {1, SgnNaN}]

InitScan ==
  /\ Init
  /\ J1 = Frac(123, 1) /\ J2 = Frac(34, 25)
  /\ ion1 = "OIII" /\ ion2 = "SII"
  /\ show = FALSE

ScanCall ==
  /\ pc = "idle"
  /\ ~last.made
  /\ op' = "ratio"
  /\ \E s \in Profiles :
     \E r \in {Scan(s)} :
       /\ last' = Call(J1, DefaultNe, DefaultT, ion1, r)
       /\ rres' = Brief(Call(J1, DefaultNe, DefaultT, ion1, r))
       /\ rprev' = rres
  /\ Frame
  /\ UNCHANGED <<pc, locals, stdout, calls, result, memo, again>>

NextScan == ScanCall

SpecScan == InitScan /\ [][NextScan]_vars

(***************************************************************************)
(* The properties.                                                         *)
(***************************************************************************)

\* C1: with ion1 OIII or NII, fivel() makes one seed temperature solve
\* (J1, ion1) at Ne = 1e4 and then exactly 4 rounds, each a density solve
\* (J2, ion2) at the temperature the preceding temperature solve returned
\* followed by a temperature solve (J1, ion1) at the density just computed;
\* it returns the pair of the fourth round, and ends earlier only when a
\* solve raises (no tolerance test, no early exit).
C1_FourRounds ==
  FamilyA(ion1) =>
    /\ Len(calls) <= 9
    /\ \A k \in 1..Len(calls) :
         /\ k = 1 => /\ calls[1].J = J1 /\ calls[1].ion = ion1
                     /\ calls[1].Ne = Py(10000)
         /\ (k > 1 /\ k % 2 = 0) =>
              /\ calls[k].J = J2 /\ calls[k].ion = ion2
              /\ calls[k].T = calls[k - 1].res.val
         /\ (k > 1 /\ k % 2 = 1) =>
              /\ calls[k].J = J1 /\ calls[k].ion = ion1
              /\ calls[k].Ne = calls[k - 1].res.val
         /\ k < Len(calls) => calls[k].res.st = "ret"
    /\ (pc = "idle" /\ result.st = "ret") =>
         /\ Len(calls) = 9
         /\ calls[9].res.st = "ret"
         /\ result.T = calls[9].res.val
         /\ result.Ne = calls[8].res.val
    /\ (pc = "idle" /\ result.st = "raise") =>
         /\ calls # <<>>
         /\ calls[Len(calls)].res.st = "raise"
         /\ result.exc = calls[Len(calls)].res.exc

\* C1 witness: fivel() returned after its nine solves although the second
\* round had already reproduced the pair of the first
C1_Witness ==
  /\ FamilyA(ion1) /\ FamilyB(ion2)
  /\ pc = "idle" /\ result.st = "ret"
  /\ Len(calls) = 9
  /\ calls[5].res.val = calls[3].res.val
  /\ calls[4].res.val = calls[2].res.val
  /\ result.T.k = "num" /\ result.Ne.k = "num" /\ result.Ne.v > 0

\* C2 as stated: a family-A solve that returns gives the first grid sample
\* whose sign of y1 - y2 differs from the sign at the sample before it.
C2_FirstSampleAfterChange ==
  (last.made /\ FamilyA(last.ion) /\ last.res.st = "ret") =>
    \E j \in 2..Len(last.res.sgn) :
      /\ \/ last.res.sgn[j] # last.res.sgn[j - 1]
         \/ last.res.sgn[j] = SgnNaN
      /\ \A m \in 2..(j - 1) :
           /\ last.res.sgn[m] = last.res.sgn[m - 1]
           /\ last.res.sgn[m] # SgnNaN
      /\ last.res.val = Np(TStart + (j - 1) * GridStep)

\* C2 amended: a family-A solve that returns gives the grid sample just
\* before the first sample whose sign of y1 - y2 differs from the sign at
\* its predecessor (a nan sign differs from every sign); later sign changes
\* have no influence.
C2_SampleBeforeFirstChange ==
  (last.made /\ FamilyA(last.ion) /\ last.res.st = "ret") =>
    \E j \in 2..Len(last.res.sgn) :
      /\ \/ last.res.sgn[j] # last.res.sgn[j - 1]
         \/ last.res.sgn[j] = SgnNaN
      /\ \A m \in 2..(j - 1) :
           /\ last.res.sgn[m] = last.res.sgn[m - 1]
           /\ last.res.sgn[m] # SgnNaN
      /\ last.res.val = Np(TStart + (j - 2) * GridStep)

\* C2 witness: a returned solve whose profile changes sign first between
\* the third and fourth samples and again later
C2_Witness ==
  /\ last.made /\ FamilyA(last.ion) /\ last.res.st = "ret"
  /\ last.res.sgn[1] = 1 /\ last.res.sgn[2] = 1 /\ last.res.sgn[3] = 1
  /\ last.res.sgn[4] = -1
  /\ \E m \in 5..Len(last.res.sgn) : last.res.sgn[m] = 1
  /\ last.res.val = Np(TStart + 2 * GridStep)

\* C3: a family-A solve whose y1 - y2 has the same sign at every grid
\* sample returns no temperature: it raises (IndexError, the no-root error
\* of this code), and inside fivel(), at the seed or in any round, the
\* error ends fivel(), which returns no pair.
C3_NoRootRaises ==
  /\ ( /\ last.made /\ FamilyA(last.ion)
       /\ last.res.sgn # <<>>
       /\ \A j \in 1..Len(last.res.sgn) :
            last.res.sgn[j] = last.res.sgn[1] /\ last.res.sgn[j] # SgnNaN )
     => /\ last.res.st = "raise"
        /\ last.res.exc = "IndexError"
        /\ last.res.val = None
        /\ (op = "fivel" /\ calls # <<>>) =>
             /\ pc = "idle"
             /\ result = Raised("IndexError")
  /\ \A k \in 1..Len(calls) :
       calls[k].res.st = "raise" =>
         /\ k = Len(calls)
         /\ pc = "idle"
         /\ result = Raised(calls[k].res.exc)

\* C3 witness: fivel() ended by a temperature solve of a round (not the
\* seed) that found no sign change
C3_Witness ==
  /\ op = "fivel" /\ pc = "idle"
  /\ Len(calls) >= 3
  /\ last.made /\ FamilyA(last.ion)
  /\ \A j \in 1..Len(last.res.sgn) : last.res.sgn[j] = last.res.sgn[1]
  /\ last.res.sgn[1] # SgnNaN
  /\ result = Raised("IndexError")

\* C4 as stated: a family-B solve whose denominator is zero
\* (J*gb*Aab = gb*Aag) fails with an error; it never returns inf or nan,
\* and fivel() returns no pair whose density is inf or nan.
C4_DegenerateRaises ==
  /\ ( /\ last.made /\ FamilyB(last.ion)
       /\ last.J.p * gb * values[last.ion].Aab
            = last.J.q * gb * values[last.ion].Aag )
     => last.res.st = "raise"
  /\ result.st = "ret" => result.Ne.k = "num" \/ result.Ne.k = "none"

\* C5 as stated: a family-B solve never returns a negative or nan density:
\* it fails instead, so fivel() neither returns such a density nor passes
\* one to a temperature solve.
C5_DensityNotNegative ==
  /\ (last.made /\ FamilyB(last.ion) /\ last.res.st = "ret") =>
       /\ last.res.val.k # "nan"
       /\ last.res.val.k = "num" => last.res.val.v >= 0
  /\ (FamilyB(ion2) /\ result.st = "ret") =>
       /\ result.Ne.k # "nan"
       /\ result.Ne.k = "num" => result.Ne.v >= 0
  /\ (FamilyA(ion1) /\ FamilyB(ion2) /\ pc = "a_temp") =>
       /\ Ne.k # "nan"
       /\ Ne.k = "num" => Ne.v >= 0

\* C6: ratio() called with an ion that is none of OIII, NII, SII, OII
\* raises (KeyError, the unknown-ion error of this code) before any
\* numerical work: no grid sample and no quotient is computed.
C6_UnknownIonRaises ==
  (last.made /\ last.ion \notin {"OIII", "NII", "SII", "OII"}) =>
    /\ last.res.st = "raise"
    /\ last.res.exc = "KeyError"
    /\ last.res.val = None
    /\ last.res.work = 0
    /\ last.res.sgn = <<>>

\* C6 witness: the caller's own call of ratio() with an unknown ion raised
C6_Witness ==
  /\ op = "ratio"
  /\ rres.made /\ rres.ion = "XEON"
  /\ rres.res.st = "raise"
  /\ last.ion = "XEON"

\* C7 as stated: for the same ion and J with a non-zero denominator, a
\* higher temperature gives a density of strictly smaller magnitude.
C7_MagnitudeDecreases ==
  \A pair \in {<<rprev, rres>>, <<rres, rprev>>} :
    ( /\ pair[1].made /\ pair[2].made
      /\ FamilyB(pair[1].ion) /\ pair[2].ion = pair[1].ion
      /\ pair[2].J = pair[1].J
      /\ pair[1].res.st = "ret" /\ pair[2].res.st = "ret"
      /\ pair[1].res.val.k = "num" /\ pair[2].res.val.k = "num"
      /\ pair[1].T.v < pair[2].T.v )
    => Abs(pair[2].res.val.v) < Abs(pair[1].res.val.v)

\* C7 amended: for the same ion and J with a non-zero denominator, the
\* magnitude of the density does not decrease when the temperature rises
\* (the density is proportional to the square root of T): for T1 < T2,
\* |density(J, T2)| >= |density(J, T1)|.
C7_MagnitudeDoesNotDecrease ==
  \A pair \in {<<rprev, rres>>, <<rres, rprev>>} :
    ( /\ pair[1].made /\ pair[2].made
      /\ FamilyB(pair[1].ion) /\ pair[2].ion = pair[1].ion
      /\ pair[2].J = pair[1].J
      /\ pair[1].res.st = "ret" /\ pair[2].res.st = "ret"
      /\ pair[1].res.val.k = "num" /\ pair[2].res.val.k = "num"
      /\ pair[1].T.v < pair[2].T.v )
    => Abs(pair[2].res.val.v) >= Abs(pair[1].res.val.v)

\* C7 witness: two family-B solves of the same ion and J at T = 1000 and
\* T = 10100, the second with the density of larger magnitude
C7_Witness ==
  /\ rprev.made /\ rres.made
  /\ FamilyB(rprev.ion) /\ rres.ion = rprev.ion /\ rres.J = rprev.J
  /\ rprev.res.st = "ret" /\ rres.res.st = "ret"
  /\ rprev.res.val.k = "num" /\ rres.res.val.k = "num"
  /\ rprev.T.v = 1000 /\ rres.T.v = 10100
  /\ Abs(rres.res.val.v) > Abs(rprev.res.val.v)
  /\ rprev.res.val.v # 0

\* C8: ratio() and fivel() leave the table of atomic constants and the
\* fields of the object as they were, and after any sequence of earlier
\* calls a call with the same arguments gives the same outcome: every
\* completed fivel() gives what the first one gave, and two calls of
\* ratio() with the same arguments give the same outcome.
C8_NoHiddenState ==
  /\ values = ValuesTable
  /\ <<J1, J2, ion1, ion2, show>> = ctor
  /\ (pc = "idle" /\ result.st # "none") => result = memo
  /\ ( /\ rprev.made /\ rres.made
       /\ rprev.J = rres.J /\ rprev.ion = rres.ion
       /\ rprev.Ne = rres.Ne /\ rprev.T = rres.T )
     => rprev.res = rres.res

\* C8 witness: a second or later call of fivel() on the object has just
\* returned the pair the first call returned
C8_Witness ==
  /\ again /\ op = "fivel" /\ pc = "idle"
  /\ result.st = "ret" /\ result = memo
  /\ Len(calls) = 9

\* C9 as stated: a temperature returned by a family-A solve lies strictly
\* between 100 and 1e5, and so does every temperature fivel() passes to a
\* density solve or returns.
C9_StrictlyInside ==
  /\ (last.made /\ FamilyA(last.ion) /\ last.res.st = "ret") =>
       (100 < last.res.val.v /\ last.res.val.v < 100000)
  /\ (FamilyA(ion1) /\ pc = "a_density") => (100 < T.v /\ T.v < 100000)
  /\ (FamilyA(ion1) /\ result.st = "ret") =>
       (100 < result.T.v /\ result.T.v < 100000)

\* C9 amended: a temperature returned by a family-A solve is a grid sample
\* T with 100 <= T < 1e5, the first sample (100 exactly) included and the
\* last sample excluded, and so is every temperature fivel() passes to a
\* density solve or returns.
C9_FromFirstSample ==
  /\ (last.made /\ FamilyA(last.ion) /\ last.res.st = "ret") =>
       /\ last.res.val.k = "num"
       /\ 100 <= last.res.val.v
       /\ last.res.val.v <= TStart + (GridLen - 2) * GridStep
       /\ last.res.val.v < 100000
  /\ (FamilyA(ion1) /\ pc = "a_density") =>
       /\ T.k = "num"
       /\ 100 <= T.v
       /\ T.v <= TStart + (GridLen - 2) * GridStep
  /\ (FamilyA(ion1) /\ result.st = "ret") =>
       /\ result.T.k = "num"
       /\ 100 <= result.T.v
       /\ result.T.v <= TStart + (GridLen - 2) * GridStep

\* C9 witness: a solve at a positive finite density returned the first
\* grid sample, which fivel() is about to pass to a density solve
C9_Witness ==
  /\ last.made /\ FamilyA(last.ion) /\ last.res.st = "ret"
  /\ last.Ne.k = "num" /\ last.Ne.v > 0
  /\ last.res.val = Np(100)
  /\ op = "fivel" /\ pc = "a_density"

====
